---- MODULE Spec2Model ----
(***************************************************************************)
(* A model of rolldown's per-module AST scanner                            *)
(* (crates/rolldown/src/ast_scanner/impl_visit.rs) and of the semantic     *)
(* preprocessing pipeline                                                  *)
(* (crates/rolldown/src/utils/pre_process_ecma_ast.rs).                    *)
(*                                                                         *)
(* Spec       : one scan of one module (AstScanner as oxc Visit).          *)
(* BuildSpec  : a sequence of PreProcessEcmaAst::build calls on one        *)
(*              PreProcessEcmaAst instance.                                *)
(***************************************************************************)
EXTENDS Integers, Sequences, FiniteSets, TLC

\* ------------------------------------------------------------------ bounds
\* Largest number of top-level statements of a scanned program.
MaxStmts == 2
\* Largest number of build calls made on one PreProcessEcmaAst instance.
MaxBuilds == 2

\* ------------------------------------------------------------ Option<T>
None == << >>
Some(x) == << x >>
IsSome(o) == o /= << >>
Unwrap(o) == o[1]

\* ---------------------------------------------------------------- spans
\* oxc Span::is_empty: start == end.
SpanIsEmpty(s, e) == s = e
\* oxc Span::is_unspanned: the span equals SPAN = Span::new(0, 0).
SpanIsUnspanned(s, e) == s = 0 /\ e = 0
\* oxc Span::contains_inclusive.
ContainsInclusive(s1, e1, s2, e2) == s1 <= s2 /\ e2 <= e1

\* ------------------------------------------------------------------ AST
\* One shape for every node.  flag is: for an IdentifierReference, whether
\* a binding of a nested (non-root) scope encloses it; for a
\* BindingIdentifier, whether the symbol it declares lives in the module's
\* root scope; for a ForOfStatement, its `await`; otherwise unused.
\* kids are the children in the order oxc's walk_* functions visit them.
Node(kind, name, start, end, flag, kids) ==
  [kind |-> kind, name |-> name, start |-> start, end |-> end,
   flag |-> flag, kids |-> kids]

Id(name, s, e, local) == Node("IdentifierReference", name, s, e, local, << >>)
Bind(name, s, e, root) == Node("BindingIdentifier", name, s, e, root, << >>)
Str(v, s, e) == Node("StringLiteral", v, s, e, FALSE, << >>)
Num(s, e) == Node("NumericLiteral", "1", s, e, FALSE, << >>)
Obj(s, e) == Node("ObjectExpression", "", s, e, FALSE, << >>)
Arg(x) == Node("Argument", "", x.start, x.end, FALSE, << x >>)
\* kids[1] is the callee, kids[2..] are the arguments.
Call(s, e, callee, args) == Node("CallExpression", "", s, e, FALSE, << callee >> \o args)
ExprStmt(s, e, x) == Node("ExpressionStatement", "", s, e, FALSE, << x >>)
Paren(s, e, x) == Node("ParenthesizedExpression", "", s, e, FALSE, << x >>)
SeqE(s, e, xs) == Node("SequenceExpression", "", s, e, FALSE, xs)
\* kids: the binding, then the initializer when there is one.
Declarator(s, e, b, init) == Node("VariableDeclarator", "", s, e, FALSE, << b >> \o init)
VarDecl(s, e, ds) == Node("VariableDeclaration", "", s, e, FALSE, ds)
Params(s, e, bs) == Node("FormalParameters", "", s, e, FALSE, bs)
Body(s, e, stmts) == Node("FunctionBody", "", s, e, FALSE, stmts)
\* kids: id, params, body.
Fn(s, e, id, params, body) == Node("Function", id.name, s, e, FALSE, << id, params, body >>)
\* A method: kids[1] is its function (an anonymous one has no id child).
Method(s, e, params, body) ==
  Node("MethodDefinition", "m", s, e, FALSE,
       << Node("Function", "", s + 1, e, FALSE, << params, body >>) >>)
ClassBody(s, e, ms) == Node("ClassBody", "", s, e, FALSE, ms)
\* A named class declaration: kids: id, body.
Class(s, e, id, body) == Node("Class", id.name, s, e, FALSE, << id, body >>)
\* kids: left (assignment target), right.
Assign(s, e, left, right) == Node("AssignmentExpression", "", s, e, FALSE, << left, right >>)
\* object.name: kids[1] is the object, name the property.
Member(s, e, obj, prop) == Node("StaticMemberExpression", prop, s, e, FALSE, << obj >>)
Await(s, e, x) == Node("AwaitExpression", "", s, e, FALSE, << x >>)
Empty(s, e) == Node("EmptyStatement", "", s, e, FALSE, << >>)
\* kids: left, right, body.
ForOf(s, e, aw, left, right, body) ==
  Node("ForOfStatement", "", s, e, aw, << left, right, body >>)
ImportE(s, e, src) == Node("ImportExpression", "", s, e, FALSE, << src >>)
\* import { a, b } from "m": kids are the local bindings.
ImportDecl(s, e, bs) == Node("ImportDeclaration", "m", s, e, FALSE, bs)

\* require("x") at offset s; its request literal spans [s + 8, s + 11).
RequireCall(s) ==
  Call(s, s + 12, Id("require", s, s + 7, FALSE), << Arg(Str("x", s + 8, s + 11)) >>)
\* import("x") at offset s; its source literal spans [s + 7, s + 10).
DynImport(s) == ImportE(s, s + 11, Str("x", s + 7, s + 10))
\* eval("x") at offset s; local says whether a nested binding named eval
\* encloses the call.
EvalCall(s, local) ==
  Call(s, s + 9, Id("eval", s, s + 4, local), << Arg(Str("x", s + 5, s + 8)) >>)

\* ------------------------------------------------------- sample programs
\* The top-level statements programs are made of; b is the offset of the
\* statement in the source text.
TemplateNames ==
  { "req_stmt", "req_decl", "req_seq_first", "req_seq_last", "req_arg",
    "req_paren", "req_fn", "req_class", "imp_stmt", "nonlit", "unspanned",
    "req_decl_seq", "eval_stmt", "eval_decl", "eval_param", "eval_class",
    "await_stmt", "for_await", "for_of", "async_fn",
    "mod_exports", "mod_exports_prop", "exports_prop", "mod_decl",
    "cjs_param", "exports_param", "mod_other", "import_decl", "ns_chain",
    "ns_chain1", "ns_class", "local_chain", "w_decl", "w_chain",
    "class_self", "class_nested", "class_plain", "p_ref", "class_other" }

\* Programs are made of the statements of one suite: the statements that
\* exercise one feature of the scanner, in every order and combination.
Suites ==
  { { "req_stmt", "req_decl", "req_seq_first", "req_seq_last", "req_arg",
      "req_paren" },
    { "req_stmt", "req_fn", "req_class", "imp_stmt", "nonlit", "unspanned",
      "req_decl_seq" },
    { "eval_stmt", "eval_decl", "eval_param", "eval_class" },
    { "await_stmt", "for_await", "for_of", "async_fn" },
    { "mod_exports", "mod_exports_prop", "exports_prop", "mod_decl",
      "cjs_param", "exports_param", "mod_other", "req_decl" },
    { "import_decl", "ns_chain", "ns_chain1", "ns_class", "local_chain",
      "w_decl", "w_chain" },
    { "class_self", "class_nested", "class_plain", "p_ref", "class_other" } }

NoParams(s) == Params(s, s + 2, << >>)

Template(t, b) ==
  CASE t = "req_stmt" ->      \* require("x");
         ExprStmt(b, b + 13, RequireCall(b))
    [] t = "req_decl" ->      \* const y = require("x");
         VarDecl(b, b + 23,
           << Declarator(b + 6, b + 22, Bind("y", b + 6, b + 7, TRUE),
                         << RequireCall(b + 10) >>) >>)
    [] t = "req_seq_first" -> \* (require("x"), 1);
         ExprStmt(b, b + 18,
           Paren(b, b + 17,
             SeqE(b + 1, b + 16, << RequireCall(b + 1), Num(b + 15, b + 16) >>)))
    [] t = "req_seq_last" ->  \* (1, require("x"));
         ExprStmt(b, b + 18,
           Paren(b, b + 17,
             SeqE(b + 1, b + 16, << Num(b + 1, b + 2), RequireCall(b + 4) >>)))
    [] t = "req_arg" ->       \* f(require("x"));
         ExprStmt(b, b + 16,
           Call(b, b + 15, Id("f", b, b + 1, FALSE), << Arg(RequireCall(b + 2)) >>))
    [] t = "req_paren" ->     \* ((require("x")));
         ExprStmt(b, b + 17,
           Paren(b, b + 16, Paren(b + 1, b + 15, RequireCall(b + 2))))
    [] t = "req_fn" ->        \* function g() { require("x"); import("x"); }
         Fn(b, b + 44, Bind("g", b + 9, b + 10, TRUE), NoParams(b + 10),
            Body(b + 13, b + 44,
              << ExprStmt(b + 15, b + 28, RequireCall(b + 15)),
                 ExprStmt(b + 29, b + 41, DynImport(b + 29)) >>))
    [] t = "req_class" ->     \* class A { m() { require("x"); import("x"); } }
         Class(b, b + 47, Bind("A", b + 6, b + 7, TRUE),
           ClassBody(b + 8, b + 47,
             << Method(b + 10, b + 45, NoParams(b + 11),
                  Body(b + 14, b + 45,
                    << ExprStmt(b + 16, b + 29, RequireCall(b + 16)),
                       ExprStmt(b + 30, b + 42, DynImport(b + 30)) >>)) >>))
    [] t = "imp_stmt" ->      \* import("x");
         ExprStmt(b, b + 12, DynImport(b))
    [] t = "nonlit" ->        \* require(import(y));
         ExprStmt(b, b + 19,
           Call(b, b + 18, Id("require", b, b + 7, FALSE),
             << Arg(ImportE(b + 8, b + 17, Id("y", b + 15, b + 16, FALSE))) >>))
    [] t = "unspanned" ->     \* f(require("x"), import("x")); synthesized literals
         ExprStmt(b, b + 30,
           Call(b, b + 29, Id("f", b, b + 1, FALSE),
             << Arg(Call(b + 2, b + 14, Id("require", b + 2, b + 9, FALSE),
                         << Arg(Str("x", 0, 0)) >>)),
                Arg(ImportE(b + 16, b + 27, Str("x", 0, 0))) >>))
    [] t = "req_decl_seq" ->  \* const z = (require("x"), 1);
         VarDecl(b, b + 28,
           << Declarator(b + 6, b + 27, Bind("z", b + 6, b + 7, TRUE),
                << Paren(b + 10, b + 27,
                     SeqE(b + 11, b + 26,
                       << RequireCall(b + 11), Num(b + 25, b + 26) >>)) >>) >>)
    [] t = "eval_stmt" ->     \* eval("x");
         ExprStmt(b, b + 10, EvalCall(b, FALSE))
    [] t = "eval_decl" ->     \* function eval() {}
         Fn(b, b + 18, Bind("eval", b + 9, b + 13, TRUE), NoParams(b + 13),
            Body(b + 16, b + 18, << >>))
    [] t = "eval_param" ->    \* function f(eval) { eval("x"); }
         Fn(b, b + 31, Bind("f", b + 9, b + 10, TRUE),
            Params(b + 10, b + 16, << Bind("eval", b + 11, b + 15, FALSE) >>),
            Body(b + 17, b + 31, << ExprStmt(b + 19, b + 29, EvalCall(b + 19, TRUE)) >>))
    [] t = "eval_class" ->    \* class C { m() { eval("x"); } }
         Class(b, b + 30, Bind("C", b + 6, b + 7, TRUE),
           ClassBody(b + 8, b + 30,
             << Method(b + 10, b + 28, NoParams(b + 11),
                  Body(b + 14, b + 28,
                    << ExprStmt(b + 16, b + 26, EvalCall(b + 16, FALSE)) >>)) >>))
    [] t = "await_stmt" ->    \* await x;
         ExprStmt(b, b + 8, Await(b, b + 7, Id("x", b + 6, b + 7, FALSE)))
    [] t = "for_await" ->     \* for await (const a of xs) ;
         ForOf(b, b + 27, TRUE,
           VarDecl(b + 11, b + 18,
             << Declarator(b + 17, b + 18, Bind("a", b + 17, b + 18, FALSE), << >>) >>),
           Id("xs", b + 22, b + 24, FALSE), Empty(b + 26, b + 27))
    [] t = "for_of" ->        \* for (const a of xs) ;
         ForOf(b, b + 21, FALSE,
           VarDecl(b + 5, b + 12,
             << Declarator(b + 11, b + 12, Bind("a", b + 11, b + 12, FALSE), << >>) >>),
           Id("xs", b + 16, b + 18, FALSE), Empty(b + 20, b + 21))
    [] t = "async_fn" ->      \* async function h() { await x; for await (const a of xs) ; }
         Fn(b, b + 59, Bind("h", b + 15, b + 16, TRUE), NoParams(b + 16),
            Body(b + 19, b + 59,
              << ExprStmt(b + 21, b + 29, Await(b + 21, b + 28, Id("x", b + 27, b + 28, FALSE))),
                 ForOf(b + 30, b + 57, TRUE,
                   VarDecl(b + 41, b + 48,
                     << Declarator(b + 47, b + 48, Bind("a", b + 47, b + 48, FALSE), << >>) >>),
                   Id("xs", b + 52, b + 54, FALSE), Empty(b + 56, b + 57)) >>))
    [] t = "mod_exports" ->   \* module.exports = {};
         ExprStmt(b, b + 20,
           Assign(b, b + 19,
             Member(b, b + 14, Id("module", b, b + 6, FALSE), "exports"),
             Obj(b + 17, b + 19)))
    [] t = "mod_exports_prop" -> \* y = module.exports.a = 1;
         ExprStmt(b, b + 25,
           Assign(b, b + 24, Id("y", b, b + 1, FALSE),
             Assign(b + 4, b + 24,
               Member(b + 4, b + 20,
                 Member(b + 4, b + 18, Id("module", b + 4, b + 10, FALSE), "exports"),
                 "a"),
               Num(b + 23, b + 24))))
    [] t = "exports_prop" ->  \* exports.a = 1;
         ExprStmt(b, b + 14,
           Assign(b, b + 13,
             Member(b, b + 9, Id("exports", b, b + 7, FALSE), "a"),
             Num(b + 12, b + 13)))
    [] t = "mod_decl" ->      \* const module = {};
         VarDecl(b, b + 18,
           << Declarator(b + 6, b + 17, Bind("module", b + 6, b + 12, TRUE),
                << Obj(b + 15, b + 17) >>) >>)
    [] t = "cjs_param" ->     \* function k(module, exports) { module.exports = 1; exports.a = 2; }
         Fn(b, b + 58, Bind("k", b + 9, b + 10, TRUE),
            Params(b + 10, b + 27,
              << Bind("module", b + 11, b + 17, FALSE),
                 Bind("exports", b + 19, b + 26, FALSE) >>),
            Body(b + 28, b + 58,
              << ExprStmt(b + 30, b + 49,
                   Assign(b + 30, b + 48,
                     Member(b + 30, b + 44, Id("module", b + 30, b + 36, TRUE), "exports"),
                     Num(b + 47, b + 48))),
                 ExprStmt(b + 50, b + 56,
                   Assign(b + 50, b + 55,
                     Member(b + 50, b + 53, Id("exports", b + 50, b + 51, TRUE), "a"),
                     Num(b + 54, b + 55))) >>))
    [] t = "exports_param" -> \* function e(exports) { module.exports = 1; exports.a = 2; }
         Fn(b, b + 50, Bind("e", b + 9, b + 10, TRUE),
            Params(b + 10, b + 19, << Bind("exports", b + 11, b + 18, FALSE) >>),
            Body(b + 20, b + 50,
              << ExprStmt(b + 22, b + 41,
                   Assign(b + 22, b + 40,
                     Member(b + 22, b + 36, Id("module", b + 22, b + 28, FALSE), "exports"),
                     Num(b + 39, b + 40))),
                 ExprStmt(b + 42, b + 48,
                   Assign(b + 42, b + 47,
                     Member(b + 42, b + 45, Id("exports", b + 42, b + 43, TRUE), "a"),
                     Num(b + 46, b + 47))) >>))
    [] t = "mod_other" ->     \* x = module.foo = 1;
         ExprStmt(b, b + 19,
           Assign(b, b + 18, Id("x", b, b + 1, FALSE),
             Assign(b + 4, b + 18,
               Member(b + 4, b + 14, Id("module", b + 4, b + 10, FALSE), "foo"),
               Num(b + 17, b + 18))))
    [] t = "import_decl" ->   \* import { ns } from "m";
         ImportDecl(b, b + 23, << Bind("ns", b + 9, b + 11, TRUE) >>)
    [] t = "ns_chain" ->      \* ns.a.b;
         ExprStmt(b, b + 7,
           Member(b, b + 6, Member(b, b + 4, Id("ns", b, b + 2, FALSE), "a"), "b"))
    [] t = "ns_chain1" ->     \* ns.a;
         ExprStmt(b, b + 5, Member(b, b + 4, Id("ns", b, b + 2, FALSE), "a"))
    [] t = "ns_class" ->      \* class B { m() { ns.a.b.c; } }
         Class(b, b + 29, Bind("B", b + 6, b + 7, TRUE),
           ClassBody(b + 8, b + 29,
             << Method(b + 10, b + 27, NoParams(b + 11),
                  Body(b + 14, b + 27,
                    << ExprStmt(b + 16, b + 25,
                         Member(b + 16, b + 24,
                           Member(b + 16, b + 22,
                             Member(b + 16, b + 20,
                               Id("ns", b + 16, b + 18, FALSE), "a"),
                             "b"),
                           "c")) >>)) >>))
    [] t = "local_chain" ->   \* function f(loc) { loc.a.b; }
         Fn(b, b + 28, Bind("f", b + 9, b + 10, TRUE),
            Params(b + 10, b + 15, << Bind("loc", b + 11, b + 14, FALSE) >>),
            Body(b + 16, b + 28,
              << ExprStmt(b + 18, b + 26,
                   Member(b + 18, b + 25,
                     Member(b + 18, b + 23, Id("loc", b + 18, b + 21, TRUE), "a"),
                     "b")) >>))
    [] t = "w_decl" ->        \* const w = {};
         VarDecl(b, b + 13,
           << Declarator(b + 6, b + 12, Bind("w", b + 6, b + 7, TRUE),
                << Obj(b + 10, b + 12) >>) >>)
    [] t = "w_chain" ->       \* w.a.b;
         ExprStmt(b, b + 6,
           Member(b, b + 5, Member(b, b + 3, Id("w", b, b + 1, FALSE), "a"), "b"))
    [] t = "class_self" ->    \* class S { m() { S; } }
         Class(b, b + 22, Bind("S", b + 6, b + 7, TRUE),
           ClassBody(b + 8, b + 22,
             << Method(b + 10, b + 20, NoParams(b + 11),
                  Body(b + 14, b + 20,
                    << ExprStmt(b + 16, b + 18, Id("S", b + 16, b + 17, FALSE)) >>)) >>))
    [] t = "class_nested" ->  \* class O { m() { class I { n() { I; O; } } O; } }
         Class(b, b + 48, Bind("O", b + 6, b + 7, TRUE),
           ClassBody(b + 8, b + 48,
             << Method(b + 10, b + 46, NoParams(b + 11),
                  Body(b + 14, b + 46,
                    << Class(b + 16, b + 41, Bind("I", b + 22, b + 23, FALSE),
                         ClassBody(b + 24, b + 41,
                           << Method(b + 26, b + 39, NoParams(b + 27),
                                Body(b + 30, b + 39,
                                  << ExprStmt(b + 32, b + 34,
                                       Id("I", b + 32, b + 33, TRUE)),
                                     ExprStmt(b + 35, b + 37,
                                       Id("O", b + 35, b + 36, FALSE)) >>)) >>)),
                       ExprStmt(b + 42, b + 44, Id("O", b + 42, b + 43, FALSE)) >>)) >>))
    [] t = "class_plain" ->   \* class P { m() { } }
         Class(b, b + 19, Bind("P", b + 6, b + 7, TRUE),
           ClassBody(b + 8, b + 19,
             << Method(b + 10, b + 17, NoParams(b + 11),
                  Body(b + 14, b + 17, << >>)) >>))
    [] t = "p_ref" ->         \* P;
         ExprStmt(b, b + 2, Id("P", b, b + 1, FALSE))
    [] t = "class_other" ->   \* class Q { m() { P; } }
         Class(b, b + 22, Bind("Q", b + 6, b + 7, TRUE),
           ClassBody(b + 8, b + 22,
             << Method(b + 10, b + 20, NoParams(b + 11),
                  Body(b + 14, b + 20,
                    << ExprStmt(b + 16, b + 18, Id("P", b + 16, b + 17, FALSE)) >>)) >>))

\* The offset of the i-th top-level statement (statements do not overlap).
Base(i) == 10 + (i - 1) * 60

\* Every sequence of 1..MaxStmts statement templates of one suite.
TemplateSeqs ==
  UNION { UNION { [1..n -> S] : n \in 1..MaxStmts } : S \in Suites }
ProgramOf(ts) == [i \in 1..Len(ts) |-> Template(ts[i], Base(i))]

\* The nodes of a subtree, in pre-order.
RECURSIVE Flatten(_)
RECURSIVE FlattenAll(_, _)
Flatten(n) == << n >> \o FlattenAll(n.kids, 1)
FlattenAll(ks, i) ==
  IF i > Len(ks) THEN << >> ELSE Flatten(ks[i]) \o FlattenAll(ks, i + 1)
NodesOf(prog) == FlattenAll(prog, 1)

\* ----------------------------------------------------- semantic analysis
\* What oxc's semantic analysis of the program tells the scanner
\* (self.scopes): the names bound in the root scope, the names bound in any
\* scope of the file, the root names bound by `const`, and for each root
\* symbol the ids of the references resolved to it.  A reference id is the
\* offset of the identifier.
SelectSeq2(s, Test(_)) == { s[i] : i \in { j \in 1..Len(s) : Test(s[j]) } }
\* The symbol a BindingIdentifier declares: its name and whether its scope
\* is the root scope.
SymbolOf(b) == [name |-> b.name, root |-> b.flag]
IsRootBinding(n) == n.kind = "BindingIdentifier" /\ n.flag
IsBinding(n) == n.kind = "BindingIdentifier"
ConstNames(nodes) ==
  LET IsConstDeclarator(n) == n.kind = "VariableDeclarator" /\ n.kids[1].flag
  IN  { n.kids[1].name : n \in SelectSeq2(nodes, IsConstDeclarator) }
SemanticOf(prog) ==
  LET nodes == NodesOf(prog)
      root == { n.name : n \in SelectSeq2(nodes, IsRootBinding) }
  IN  [ root |-> root,
        declared |-> { n.name : n \in SelectSeq2(nodes, IsBinding) },
        consts |-> ConstNames(nodes),
        resolved_references |->
          [ s \in { SymbolOf(n) : n \in SelectSeq2(nodes, IsBinding) } |->
              LET RefersTo(n) ==
                    /\ n.kind = "IdentifierReference"
                    /\ n.name = s.name
                    /\ IF s.root THEN ~n.flag /\ s.name \in root ELSE n.flag
              IN  { n.start : n \in SelectSeq2(nodes, RefersTo) } ] ]

\* ------------------------------------------------------------- variables
VARIABLES
  program,            \* ast::Program.body: the top-level statements
  options,            \* AstScanner.options: None, or Some of the output format
  scopes,             \* AstScanner.scopes
  pc,                 \* "scan" while visit_program runs, then "done"
  work,               \* the calls still to make, innermost first
  visit_path,         \* AstScanner.visit_path
  scope_stack,        \* AstScanner.scope_stack
  current_stmt_info,  \* AstScanner.current_stmt_info
  result,             \* AstScanner.result
  cjs_module_ident,   \* AstScanner.cjs_module_ident
  cjs_exports_ident,  \* AstScanner.cjs_exports_ident
  cur_class,          \* AstScanner.cur_class_decl_and_symbol_referenced_ids
  next_stmt           \* visit_program: the index the loop is at

scan_vars ==
  << program, options, scopes, pc, work, visit_path, scope_stack,
     current_stmt_info, result, cjs_module_ident, cjs_exports_ident, cur_class,
     next_stmt >>

\* The state of PreProcessEcmaAst and of its running build call.
VARIABLES
  ast_changed,     \* PreProcessEcmaAst.ast_changed
  stats,           \* PreProcessEcmaAst.stats: the build call that measured them
  stage,           \* where the running build call is; "idle" between calls
  input,           \* the arguments of the running build call
  ast,             \* the AST of the running call: how often it was mutated
  symbols_scopes,  \* the local (symbols, scopes); None once moved away
  log,             \* what the stages of the running call did, in order
  returned,        \* what the last build call returned
  builds,          \* the number of build calls begun
  diagnostics      \* ret.errors of the transform of the running call: severities

build_vars ==
  << ast_changed, stats, stage, input, ast, symbols_scopes, log, returned, builds,
     diagnostics >>

Formats == { "esm", "cjs" }
Options == { None } \cup { Some([format |-> f]) : f \in Formats }
\* OutputFormat::keep_esm_import_export_syntax.
KeepEsmImportExportSyntax(format) == format = "esm"

\* StmtInfo::default().
DefaultStmtInfo ==
  [ stmt_idx |-> None, side_effect |-> FALSE, declared_symbols |-> {},
    referenced_symbols |-> {}, member_expr_refs |-> << >> ]

\* --------------------------------------------------------- the call stack
NoNode == Node("", "", 0, 0, FALSE, << >>)
Task(op, n) == [op |-> op, node |-> n, prev |-> None]
RestoreTask(prev) == [op |-> "restore_class_decl", node |-> NoNode, prev |-> prev]

\* The visit_* methods this file overrides, by the kind of node they get.
Overridden ==
  { "CallExpression", "AssignmentExpression", "StaticMemberExpression",
    "ForOfStatement", "AwaitExpression", "IdentifierReference",
    "BindingIdentifier", "ImportExpression" }
\* Nodes whose walk_* only enters and leaves the node.
Leaves == { "StringLiteral", "NumericLiteral", "ObjectExpression", "EmptyStatement" }
\* Kinds that Statement::as_module_declaration accepts.
ModuleDeclarations == { "ImportDeclaration" }
\* Kinds that are a Declaration when they stand as a statement.
Declarations == { "VariableDeclaration", "Function", "Class" }

\* What enter_node gets: the AstKind of the node.  Of the node it refers to
\* the model keeps the span and the span of the last child.
AstKind(n) ==
  [ kind |-> n.kind, start |-> n.start, end |-> n.end,
    last |-> IF n.kids = << >> THEN << 0, 0 >>
             ELSE << n.kids[Len(n.kids)].start, n.kids[Len(n.kids)].end >> ]

VisitAll(ks) == [i \in 1..Len(ks) |-> Task("visit", ks[i])]
VisitStatements(ks) == [i \in 1..Len(ks) |-> Task("visit_statement", ks[i])]

\* The calls walk_<kind>(n) makes after enter_node, in order.
WalkTasks(n) ==
  CASE n.kind = "Function" ->
         << Task("enter_scope", n) >> \o VisitAll(n.kids)
           \o << Task("leave_scope", n), Task("leave_node", n) >>
    [] n.kind = "Class" ->
         << Task("visit", n.kids[1]), Task("enter_scope", n) >>
           \o VisitAll(Tail(n.kids))
           \o << Task("leave_scope", n), Task("leave_node", n) >>
    [] n.kind = "ForOfStatement" ->
         << Task("enter_scope", n), Task("visit", n.kids[1]), Task("visit", n.kids[2]),
            Task("visit_statement", n.kids[3]),
            Task("leave_scope", n), Task("leave_node", n) >>
    [] n.kind = "FunctionBody" ->
         VisitStatements(n.kids) \o << Task("leave_node", n) >>
    [] OTHER -> VisitAll(n.kids) \o << Task("leave_node", n) >>

\* ------------------------------------------------ the scanner's helpers
Top == work[1]
Rest == Tail(work)
Pop(s) == IF s = << >> THEN s ELSE SubSeq(s, 1, Len(s) - 1)

\* oxc: the symbol the reference resolves to, None when it is unresolved.
ResolveSymbolFromReference(id) ==
  IF id.flag THEN Some([name |-> id.name, root |-> FALSE])
  ELSE IF id.name \in scopes.root THEN Some([name |-> id.name, root |-> TRUE])
  ELSE None

\* AstScanner::resolve_identifier_to_root_symbol: the binding, filtered to
\* the root scope.
ResolveIdentifierToRootSymbol(id) ==
  LET s == ResolveSymbolFromReference(id)
  IN  IF IsSome(s) /\ Unwrap(s).root THEN s ELSE None

\* AstScanner::is_global_identifier_reference: the identifier has no
\* declared binding anywhere in the file.
IsGlobalIdentifierReference(id) == id.name \notin scopes.declared

\* CallExpressionExt::is_global_require_call: the callee is the unshadowed
\* global require.
IsGlobalRequireCall(expr) ==
  /\ expr.kids[1].kind = "IdentifierReference"
  /\ expr.kids[1].name = "require"
  /\ ResolveSymbolFromReference(expr.kids[1]) = None

\* AstScanner::is_top_level: no scope other than the module's is open.  The
\* module scope has id 0 and is never pushed, since visit_program does not
\* call walk_program.
IsTopLevel == \A i \in 1..Len(scope_stack) : scope_stack[i] = 0

\* SideEffectDetector::detect_side_effect_of_stmt: anything not classified
\* pure has a side effect.
DetectSideEffectOfStmt(stmt) == stmt.kind \notin { "Function", "Class" }

\* AstScanner::add_import_record: push the record, return its index.
AddImportRecord(res, request, kind, s, e, meta) ==
  [res EXCEPT !.import_records =
     Append(@, [request |-> request, kind |-> kind, start |-> s, end |-> e,
                meta |-> meta])]
\* self.result.imports.insert(span, id).
ImportsInsert(imports, s, e, id) ==
  { p \in imports : ~(p.start = s /\ p.end = e) }
    \cup { [start |-> s, end |-> e, id |-> id] }

\* scan_module_decl for an import declaration: every local binding becomes
\* a named import.
ScanModuleDecl(res, decl) ==
  [res EXCEPT !.named_imports =
     @ \cup { SymbolOf(decl.kids[i]) : i \in 1..Len(decl.kids) }]

\* try_diagnostic_forbid_const_assign: an error when the target is a
\* constant binding.
TryDiagnosticForbidConstAssign(res, id) ==
  LET s == ResolveSymbolFromReference(id)
  IN  IF IsSome(s) /\ Unwrap(s).root /\ id.name \in scopes.consts
      THEN [res EXCEPT !.errors =
              Append(@, [kind |-> "forbid_const_assign", start |-> id.start,
                         end |-> id.end, format |-> ""])]
      ELSE res

\* BuildDiagnostic::unsupported_feature for top-level await.
TopLevelAwaitError(it, format) ==
  [kind |-> "unsupported_feature", start |-> it.start, end |-> it.end,
   format |-> format]

\* Variant: Option::insert, which overwrites.
GetOrInsert_Overwrite(opt, v) == Some(v)

\* Option::get_or_insert.
GetOrInsert(opt, v) == IF IsSome(opt) THEN opt ELSE Some(v)

Reverse(s) == [i \in 1..Len(s) |-> s[Len(s) + 1 - i]]

\* ------------------------------------------------------ the visitor: state
ScanInit ==
  \E ts \in TemplateSeqs, opt \in Options :
    /\ program = ProgramOf(ts)
    /\ options = opt
    /\ scopes = SemanticOf(ProgramOf(ts))
    /\ pc = "scan"
    /\ work = << >>
    /\ visit_path = << >>
    /\ scope_stack = << >>
    /\ current_stmt_info = DefaultStmtInfo
    /\ result = [ stmt_infos |-> << >>, import_records |-> << >>, imports |-> {},
                  errors |-> << >>, warnings |-> << >>, has_eval |-> FALSE,
                  named_imports |-> {},
                  self_referenced_class_decl_symbol_ids |-> {},
                  hashbang_range |-> None ]
    /\ cjs_module_ident = None
    /\ cjs_exports_ident = None
    /\ cur_class = None
    /\ next_stmt = 0

\* walk_<kind>(self, n) as the last call of a visitor: enter_node, then the
\* calls of the walk in front of what the callers still have to do.
EnterNode(path, n) == Append(path, AstKind(n))
WalkInto(n) ==
  /\ visit_path' = EnterNode(visit_path, n)
  /\ work' = WalkTasks(n) \o Rest

\* ---------------------------------------------------------- visit_program
\* Variant: the iteration does not record the index of its statement.
VisitProgramStmtInfo_NoIndex(info, idx, stmt) ==
  [info EXCEPT !.side_effect = DetectSideEffectOfStmt(stmt)]

\* Lines 40-50: the head of one iteration of the loop over program.body.
VisitProgramStmtInfo(info, idx, stmt) ==
  [info EXCEPT !.stmt_idx = Some(idx),
               !.side_effect = DetectSideEffectOfStmt(stmt)]

VisitProgramNext ==
  /\ pc = "scan" /\ work = << >> /\ next_stmt < Len(program)
  /\ LET stmt == program[next_stmt + 1]
     IN  /\ current_stmt_info' = VisitProgramStmtInfo(current_stmt_info, next_stmt, stmt)
         /\ work' = << Task("visit_statement", stmt), Task("add_stmt_info", stmt) >>
  /\ UNCHANGED << build_vars, program, options, scopes, pc, visit_path, scope_stack, result,
                  cjs_module_ident, cjs_exports_ident, cur_class, next_stmt >>

\* Line 51: add_stmt_info(std::mem::take(&mut self.current_stmt_info)).
AddStmtInfo(infos, info) == Append(infos, info)

\* Variant: the StmtInfo is committed as a copy and the accumulator kept.
VisitProgramCommit_KeepAccumulator ==
  /\ pc = "scan" /\ work /= << >> /\ Top.op = "add_stmt_info"
  /\ result' = [result EXCEPT !.stmt_infos = AddStmtInfo(@, current_stmt_info)]
  /\ next_stmt' = next_stmt + 1
  /\ work' = Rest
  /\ UNCHANGED << build_vars, program, options, scopes, pc, visit_path, scope_stack,
                  current_stmt_info, cjs_module_ident, cjs_exports_ident, cur_class >>

VisitProgramCommit ==
  /\ pc = "scan" /\ work /= << >> /\ Top.op = "add_stmt_info"
  /\ result' = [result EXCEPT !.stmt_infos = AddStmtInfo(@, current_stmt_info)]
  /\ current_stmt_info' = DefaultStmtInfo
  /\ next_stmt' = next_stmt + 1
  /\ work' = Rest
  /\ UNCHANGED << build_vars, program, options, scopes, pc, visit_path, scope_stack,
                  cjs_module_ident, cjs_exports_ident, cur_class >>

\* Line 53: the loop is over; the sample programs have no hashbang.
VisitProgramEnd ==
  /\ pc = "scan" /\ work = << >> /\ next_stmt = Len(program)
  /\ result' = [result EXCEPT !.hashbang_range = None]
  /\ pc' = "done"
  /\ UNCHANGED << build_vars, program, options, scopes, work, visit_path, scope_stack,
                  current_stmt_info, cjs_module_ident, cjs_exports_ident,
                  cur_class, next_stmt >>

\* ------------------------------------------- enter/leave scope and node
EnterScope ==
  /\ work /= << >> /\ Top.op = "enter_scope"
  /\ scope_stack' = Append(scope_stack, Top.node.start)
  /\ work' = Rest
  /\ UNCHANGED << build_vars, program, options, scopes, pc, visit_path, current_stmt_info,
                  result, cjs_module_ident, cjs_exports_ident, cur_class, next_stmt >>

LeaveScope ==
  /\ work /= << >> /\ Top.op = "leave_scope"
  /\ scope_stack' = Pop(scope_stack)
  /\ work' = Rest
  /\ UNCHANGED << build_vars, program, options, scopes, pc, visit_path, current_stmt_info,
                  result, cjs_module_ident, cjs_exports_ident, cur_class, next_stmt >>

LeaveNode ==
  /\ work /= << >> /\ Top.op = "leave_node"
  /\ visit_path' = Pop(visit_path)
  /\ work' = Rest
  /\ UNCHANGED << build_vars, program, options, scopes, pc, scope_stack, current_stmt_info,
                  result, cjs_module_ident, cjs_exports_ident, cur_class, next_stmt >>

\* --------------------------------------------------------- visit_statement
\* walk_statement: a declaration goes to visit_declaration, any other
\* statement to the visit method of its kind.
WalkStatement(stmt) ==
  IF stmt.kind \in Declarations THEN << Task("visit_declaration", stmt) >>
  ELSE << Task("visit", stmt) >>

VisitStatement ==
  /\ work /= << >> /\ Top.op = "visit_statement"
  /\ result' = IF Top.node.kind \in ModuleDeclarations
               THEN ScanModuleDecl(result, Top.node) ELSE result
  /\ work' = WalkStatement(Top.node) \o Rest
  /\ UNCHANGED << build_vars, program, options, scopes, pc, visit_path, scope_stack,
                  current_stmt_info, cjs_module_ident, cjs_exports_ident,
                  cur_class, next_stmt >>

\* ------------------------------- visit_declaration, scan_class_declaration
\* What visit_declaration still has to do once scan_class_declaration has
\* walked the class: walk_declaration, which visits the declaration.
WalkDeclaration(it) == << Task("visit", it) >>

VisitDeclaration ==
  /\ work /= << >> /\ Top.op = "visit_declaration"
  /\ LET it == Top.node
     IN  IF it.kind = "Class" /\ it.kids /= << >> /\ it.kids[1].kind = "BindingIdentifier"
         THEN \* scan_class_declaration, lines 289-294
              LET symbol_id == SymbolOf(it.kids[1])
              IN  /\ cur_class' = Some([symbol_id |-> symbol_id,
                                        ids |-> scopes.resolved_references[symbol_id]])
                  /\ visit_path' = EnterNode(visit_path, it)
                  /\ work' = WalkTasks(it) \o << RestoreTask(cur_class) >>
                               \o WalkDeclaration(it) \o Rest
         ELSE /\ work' = WalkDeclaration(it) \o Rest
              /\ UNCHANGED << cur_class, visit_path >>
  /\ UNCHANGED << build_vars, program, options, scopes, pc, scope_stack, current_stmt_info,
                  result, cjs_module_ident, cjs_exports_ident, next_stmt >>

\* Variant: the context is cleared, not restored.
ScanClassDeclarationRestore_Clear ==
  /\ work /= << >> /\ Top.op = "restore_class_decl"
  /\ cur_class' = None
  /\ work' = Rest
  /\ UNCHANGED << build_vars, program, options, scopes, pc, visit_path, scope_stack,
                  current_stmt_info, result, cjs_module_ident, cjs_exports_ident,
                  next_stmt >>

\* Line 294: self.cur_class_decl_and_symbol_referenced_ids = previous.
ScanClassDeclarationRestore ==
  /\ work /= << >> /\ Top.op = "restore_class_decl"
  /\ cur_class' = Top.prev
  /\ work' = Rest
  /\ UNCHANGED << build_vars, program, options, scopes, pc, visit_path, scope_stack,
                  current_stmt_info, result, cjs_module_ident, cjs_exports_ident,
                  next_stmt >>

\* ------------------------------------- the visit methods not overridden
VisitDefault ==
  /\ work /= << >> /\ Top.op = "visit" /\ Top.node.kind \notin Overridden
  /\ IF Top.node.kind \in Leaves
     THEN work' = Rest /\ visit_path' = Pop(EnterNode(visit_path, Top.node))
     ELSE WalkInto(Top.node)
  /\ UNCHANGED << build_vars, program, options, scopes, pc, scope_stack, current_stmt_info,
                  result, cjs_module_ident, cjs_exports_ident, cur_class, next_stmt >>

\* ------------------------------------------------ visit_binding_identifier
VisitBindingIdentifierInfo(info, ident) ==
  IF SymbolOf(ident).root
  THEN [info EXCEPT !.declared_symbols = @ \cup { SymbolOf(ident) }]
  ELSE info

VisitBindingIdentifier ==
  /\ work /= << >> /\ Top.op = "visit" /\ Top.node.kind = "BindingIdentifier"
  /\ current_stmt_info' = VisitBindingIdentifierInfo(current_stmt_info, Top.node)
  /\ work' = Rest
  /\ UNCHANGED << build_vars, program, options, scopes, pc, visit_path, scope_stack, result,
                  cjs_module_ident, cjs_exports_ident, cur_class, next_stmt >>

\* ---------------------------------------------- visit_identifier_reference
VisitIdentifierReferenceInfo(info, ident) ==
  LET root_symbol_id == ResolveIdentifierToRootSymbol(ident)
  IN  IF IsSome(root_symbol_id)
      THEN [info EXCEPT !.referenced_symbols = @ \cup { Unwrap(root_symbol_id) }]
      ELSE info

SelfReferencedClassDecls(ids, cur, ident) ==
  IF IsSome(cur) /\ ident.start \in Unwrap(cur).ids
  THEN ids \cup { Unwrap(cur).symbol_id }
  ELSE ids

VisitIdentifierReference ==
  /\ work /= << >> /\ Top.op = "visit" /\ Top.node.kind = "IdentifierReference"
  /\ current_stmt_info' = VisitIdentifierReferenceInfo(current_stmt_info, Top.node)
  /\ result' = [result EXCEPT !.self_referenced_class_decl_symbol_ids =
                  SelfReferencedClassDecls(@, cur_class, Top.node)]
  /\ work' = Rest
  /\ UNCHANGED << build_vars, program, options, scopes, pc, visit_path, scope_stack,
                  cjs_module_ident, cjs_exports_ident, cur_class, next_stmt >>

\* ------------------------------------------------- visit_member_expression
\* Lines 68-81: the properties of the chain, outermost first, and the
\* expression the chain is rooted at.
RECURSIVE PropsInReverseOrder(_)
PropsInReverseOrder(m) ==
  << m.name >> \o (IF m.kids[1].kind = "StaticMemberExpression"
                   THEN PropsInReverseOrder(m.kids[1]) ELSE << >>)
RECURSIVE ChainObject(_)
ChainObject(m) ==
  IF m.kids[1].kind = "StaticMemberExpression" THEN ChainObject(m.kids[1])
  ELSE m.kids[1]
ObjectSymbolInRootScope(m) ==
  IF ChainObject(m).kind = "IdentifierReference"
  THEN ResolveIdentifierToRootSymbol(ChainObject(m))
  ELSE None

\* Lines 85-86: the guard of the arm that records the chain.
IsNamedImportChain(expr) ==
  /\ IsSome(ObjectSymbolInRootScope(expr))
  /\ Unwrap(ObjectSymbolInRootScope(expr)) \in result.named_imports
  /\ ~SpanIsUnspanned(expr.start, expr.end)

\* add_member_expr_reference.
AddMemberExprReference(info, sym_ref, props, s, e) ==
  [info EXCEPT !.member_expr_refs =
     Append(@, [object_ref |-> sym_ref, props |-> props, start |-> s, end |-> e])]

\* Variant: the arm that records the chain enters the node before it
\* returns.
VisitMemberExpression_EnterAndReturn ==
  /\ work /= << >> /\ Top.op = "visit" /\ Top.node.kind = "StaticMemberExpression"
  /\ LET expr == Top.node
     IN  IF IsNamedImportChain(expr)
         THEN /\ current_stmt_info' =
                   AddMemberExprReference(current_stmt_info,
                     Unwrap(ObjectSymbolInRootScope(expr)),
                     Reverse(PropsInReverseOrder(expr)), expr.start, expr.end)
              /\ work' = Rest
              /\ visit_path' = EnterNode(visit_path, expr)
         ELSE /\ WalkInto(expr)
              /\ UNCHANGED current_stmt_info
  /\ UNCHANGED << build_vars, program, options, scopes, pc, scope_stack, result,
                  cjs_module_ident, cjs_exports_ident, cur_class, next_stmt >>

VisitMemberExpression ==
  /\ work /= << >> /\ Top.op = "visit" /\ Top.node.kind = "StaticMemberExpression"
  /\ LET expr == Top.node
     IN  IF IsNamedImportChain(expr)
         THEN /\ current_stmt_info' =
                   AddMemberExprReference(current_stmt_info,
                     Unwrap(ObjectSymbolInRootScope(expr)),
                     Reverse(PropsInReverseOrder(expr)), expr.start, expr.end)
              /\ work' = Rest
              /\ UNCHANGED visit_path
         ELSE /\ WalkInto(expr)
              /\ UNCHANGED current_stmt_info
  /\ UNCHANGED << build_vars, program, options, scopes, pc, scope_stack, result,
                  cjs_module_ident, cjs_exports_ident, cur_class, next_stmt >>

\* ---------------------- visit_for_of_statement, visit_await_expression
\* Lines 106-119.
VisitForOfStatementErrors(errors, it) ==
  IF it.flag /\ IsTopLevel /\ IsSome(options)
     /\ ~KeepEsmImportExportSyntax(Unwrap(options).format)
  THEN Append(errors, TopLevelAwaitError(it, Unwrap(options).format))
  ELSE errors

VisitForOfStatement ==
  /\ work /= << >> /\ Top.op = "visit" /\ Top.node.kind = "ForOfStatement"
  /\ result' = [result EXCEPT !.errors = VisitForOfStatementErrors(@, Top.node)]
  /\ WalkInto(Top.node)
  /\ UNCHANGED << build_vars, program, options, scopes, pc, scope_stack, current_stmt_info,
                  cjs_module_ident, cjs_exports_ident, cur_class, next_stmt >>

\* Variant: the await is not checked to be at top level.
VisitAwaitExpressionErrors_AnyDepth(errors, it) ==
  IF IsSome(options) /\ ~KeepEsmImportExportSyntax(Unwrap(options).format)
  THEN Append(errors, TopLevelAwaitError(it, Unwrap(options).format))
  ELSE errors

\* Lines 125-134.
VisitAwaitExpressionErrors(errors, it) ==
  IF IsSome(options) /\ ~KeepEsmImportExportSyntax(Unwrap(options).format)
     /\ IsTopLevel
  THEN Append(errors, TopLevelAwaitError(it, Unwrap(options).format))
  ELSE errors

\* Variant: the error is thrown, which ends the scan, instead of recorded.
VisitAwaitExpression_Throw ==
  /\ work /= << >> /\ Top.op = "visit" /\ Top.node.kind = "AwaitExpression"
  /\ result' = [result EXCEPT !.errors = VisitAwaitExpressionErrors(@, Top.node)]
  /\ IF VisitAwaitExpressionErrors(result.errors, Top.node) /= result.errors
     THEN work' = << >> /\ visit_path' = << >> /\ pc' = "done"
     ELSE WalkInto(Top.node) /\ UNCHANGED pc
  /\ UNCHANGED << build_vars, program, options, scopes, scope_stack, current_stmt_info,
                  cjs_module_ident, cjs_exports_ident, cur_class, next_stmt >>

VisitAwaitExpression ==
  /\ work /= << >> /\ Top.op = "visit" /\ Top.node.kind = "AwaitExpression"
  /\ result' = [result EXCEPT !.errors = VisitAwaitExpressionErrors(@, Top.node)]
  /\ WalkInto(Top.node)
  /\ UNCHANGED << build_vars, program, options, scopes, pc, scope_stack, current_stmt_info,
                  cjs_module_ident, cjs_exports_ident, cur_class, next_stmt >>

\* ------------------------------------------------- visit_import_expression
\* Lines 157-169.
VisitImportExpressionResult(res, expr) ==
  LET source == expr.kids[1]
  IN  IF source.kind = "StringLiteral"
      THEN LET meta == IF SpanIsEmpty(source.start, source.end)
                       THEN { "IS_UNSPANNED_IMPORT" } ELSE {}
               id == Len(res.import_records)
               added == AddImportRecord(res, source.name, "DynamicImport",
                                        source.start, source.end, meta)
           IN  [added EXCEPT !.imports = ImportsInsert(@, expr.start, expr.end, id)]
      ELSE res

VisitImportExpression ==
  /\ work /= << >> /\ Top.op = "visit" /\ Top.node.kind = "ImportExpression"
  /\ result' = VisitImportExpressionResult(result, Top.node)
  /\ WalkInto(Top.node)
  /\ UNCHANGED << build_vars, program, options, scopes, pc, scope_stack, current_stmt_info,
                  cjs_module_ident, cjs_exports_ident, cur_class, next_stmt >>

\* --------------------------------------------- visit_assignment_expression
\* Lines 186-210: the identifier whose span becomes the module.exports
\* marker, if the assignment target names one.
IsModuleDotExports(member_expr) ==
  /\ member_expr.kind = "StaticMemberExpression"
  /\ member_expr.kids[1].kind = "IdentifierReference"
  /\ member_expr.kids[1].name = "module"
  /\ IsGlobalIdentifierReference(member_expr.kids[1])
  /\ member_expr.name = "exports"

\* Variant: `module` is not checked to be a global reference.
CjsModuleIdent_AnyModule(cur, node) ==
  LET left == node.kids[1]
      Named(m) == /\ m.kind = "StaticMemberExpression"
                  /\ m.kids[1].kind = "IdentifierReference"
                  /\ m.kids[1].name = "module"
                  /\ m.name = "exports"
  IN  IF left.kind /= "StaticMemberExpression" THEN cur
      ELSE IF Named(left)
           THEN GetOrInsert(cur, << left.kids[1].start, left.kids[1].start + 6 >>)
      ELSE IF Named(left.kids[1])
           THEN GetOrInsert(cur, << left.kids[1].kids[1].start,
                                    left.kids[1].kids[1].start + 6 >>)
      ELSE cur

CjsModuleIdent(cur, node) ==
  LET left == node.kids[1]
  IN  IF left.kind /= "StaticMemberExpression" THEN cur
      ELSE IF IsModuleDotExports(left)
           THEN GetOrInsert(cur, << left.kids[1].start, left.kids[1].start + 6 >>)
      ELSE IF IsModuleDotExports(left.kids[1])
           THEN GetOrInsert(cur, << left.kids[1].kids[1].start,
                                    left.kids[1].kids[1].start + 6 >>)
      ELSE cur

\* Lines 194-196.
CjsExportsIdent(cur, node) ==
  LET left == node.kids[1]
  IN  IF /\ left.kind = "StaticMemberExpression"
         /\ left.kids[1].kind = "IdentifierReference"
         /\ left.kids[1].name = "exports"
         /\ IsGlobalIdentifierReference(left.kids[1])
      THEN GetOrInsert(cur, << left.kids[1].start, left.kids[1].start + 7 >>)
      ELSE cur

VisitAssignmentExpression ==
  /\ work /= << >> /\ Top.op = "visit" /\ Top.node.kind = "AssignmentExpression"
  /\ result' = IF Top.node.kids[1].kind = "IdentifierReference"
               THEN TryDiagnosticForbidConstAssign(result, Top.node.kids[1])
               ELSE result
  /\ cjs_module_ident' = CjsModuleIdent(cjs_module_ident, Top.node)
  /\ cjs_exports_ident' = CjsExportsIdent(cjs_exports_ident, Top.node)
  /\ WalkInto(Top.node)
  /\ UNCHANGED << build_vars, program, options, scopes, pc, scope_stack, current_stmt_info,
                  cur_class, next_stmt >>

\* --------------------------------------------------- visit_call_expression
\* Lines 217-230: the callee is `eval` and does not resolve to a root symbol.
IsEvalCall(expr) ==
  /\ expr.kids[1].kind = "IdentifierReference"
  /\ expr.kids[1].name = "eval"
  /\ ResolveIdentifierToRootSymbol(expr.kids[1]) = None

EvalResult(res, expr) ==
  IF IsEvalCall(expr)
  THEN [res EXCEPT !.has_eval = TRUE,
                   !.warnings = Append(@, [kind |-> "eval",
                                           start |-> expr.kids[1].start,
                                           end |-> expr.kids[1].end])]
  ELSE res

\* Lines 240-272: the walk over the ancestors, innermost first; i is the
\* ancestor the loop is at, used is is_require_used.
RECURSIVE RequireMetaWalk(_, _, _, _)
RequireMetaWalk(path, i, used, expr) ==
  IF i = 0 THEN {}
  ELSE LET a == path[i]
       IN  CASE a.kind = "ParenthesizedExpression" ->
                  RequireMetaWalk(path, i - 1, used, expr)
             [] a.kind = "ExpressionStatement" -> { "IS_REQUIRE_UNUSED" }
             [] a.kind = "SequenceExpression" ->
                  RequireMetaWalk(path, i - 1,
                    IF ~SpanIsEmpty(a.last[1], a.last[2])
                       /\ ~SpanIsEmpty(expr.start, expr.end)
                    THEN ContainsInclusive(a.last[1], a.last[2], expr.start, expr.end)
                    ELSE TRUE,
                    expr)
             [] OTHER ->
                  IF used THEN {} ELSE RequireMetaWalk(path, i - 1, used, expr)

\* Variant: a sequence expression whose last operand holds the call ends the
\* walk, the call counting as used.
RECURSIVE RequireMetaWalk_StopAtSequence(_, _, _, _)
RequireMetaWalk_StopAtSequence(path, i, used, expr) ==
  IF i = 0 THEN {}
  ELSE LET a == path[i]
       IN  CASE a.kind = "ParenthesizedExpression" ->
                  RequireMetaWalk_StopAtSequence(path, i - 1, used, expr)
             [] a.kind = "ExpressionStatement" -> { "IS_REQUIRE_UNUSED" }
             [] a.kind = "SequenceExpression" ->
                  IF ~SpanIsEmpty(a.last[1], a.last[2])
                     /\ ~SpanIsEmpty(expr.start, expr.end)
                     /\ ~ContainsInclusive(a.last[1], a.last[2], expr.start, expr.end)
                  THEN RequireMetaWalk_StopAtSequence(path, i - 1, FALSE, expr)
                  ELSE {}
             [] OTHER ->
                  IF used THEN {}
                  ELSE RequireMetaWalk_StopAtSequence(path, i - 1, used, expr)
RequireMeta_StopAtSequence(path, expr, request) ==
  IF SpanIsEmpty(request.start, request.end) THEN { "IS_UNSPANNED_IMPORT" }
  ELSE RequireMetaWalk_StopAtSequence(path, Len(path), TRUE, expr)
\* Variant: is_require_used starts out false.
RequireMeta_StartUnused(path, expr, request) ==
  IF SpanIsEmpty(request.start, request.end) THEN { "IS_UNSPANNED_IMPORT" }
  ELSE RequireMetaWalk(path, Len(path), FALSE, expr)

RequireMeta(path, expr, request) ==
  IF SpanIsEmpty(request.start, request.end) THEN { "IS_UNSPANNED_IMPORT" }
  ELSE RequireMetaWalk(path, Len(path), TRUE, expr)

\* Lines 231-277.
RequireResult(res, path, expr) ==
  IF /\ IsGlobalRequireCall(expr)
     /\ Len(expr.kids) >= 2
     /\ expr.kids[2].kids[1].kind = "StringLiteral"
  THEN LET request == expr.kids[2].kids[1]
           id == Len(res.import_records)
           added == AddImportRecord(res, request.name, "Require", request.start,
                                    request.end, RequireMeta(path, expr, request))
       IN  [added EXCEPT !.imports = ImportsInsert(@, expr.start, expr.end, id)]
  ELSE res

VisitCallExpression ==
  /\ work /= << >> /\ Top.op = "visit" /\ Top.node.kind = "CallExpression"
  /\ result' = RequireResult(EvalResult(result, Top.node), visit_path, Top.node)
  /\ WalkInto(Top.node)
  /\ UNCHANGED << build_vars, program, options, scopes, pc, scope_stack, current_stmt_info,
                  cjs_module_ident, cjs_exports_ident, cur_class, next_stmt >>

\* ------------------------------------------------------------ one scan
ScanNext ==
  \/ VisitProgramNext
  \/ VisitProgramCommit
  \/ VisitProgramEnd
  \/ EnterScope
  \/ LeaveScope
  \/ LeaveNode
  \/ VisitStatement
  \/ VisitDeclaration
  \/ ScanClassDeclarationRestore
  \/ VisitDefault
  \/ VisitBindingIdentifier
  \/ VisitIdentifierReference
  \/ VisitMemberExpression
  \/ VisitForOfStatement
  \/ VisitAwaitExpression
  \/ VisitImportExpression
  \/ VisitAssignmentExpression
  \/ VisitCallExpression

\* ======================================================================
\* PreProcessEcmaAst::build
\* ======================================================================
ParseTypes == { "Js", "Jsx", "Ts", "Tsx" }
\* define: replace_global_define_config is Some; inject: bundle_options.inject
\* is not empty; treeshake: bundle_options.treeshake.enabled().
BuildInputs ==
  [ parse_type : ParseTypes, define : BOOLEAN, inject : BOOLEAN, treeshake : BOOLEAN ]
Severities == { "Error", "Warning" }

\* Symbol table and scope tree: the state of the AST they describe (at), the
\* stage that produced them (by), and whether the scope tree indexes the ids
\* of child scopes.
Semantic(at, by, child_ids) == [at |-> at, by |-> by, child_ids |-> child_ids]
\* What a stage did: the tables it was given (None if it takes none), the
\* state of the AST it was given, whether it changed the AST, and the stats
\* a semantic build was given as a hint (0 for none).
Event(name, given, at, mutated, hint) ==
  [stage |-> name, given |-> given, at |-> at, mutated |-> mutated, hint |-> hint]
Mutate(a, mutated) == IF mutated THEN a + 1 ELSE a

BuildInit ==
  /\ ast_changed = FALSE
  /\ stats = 0
  /\ stage = "idle"
  /\ input = [parse_type |-> "Js", define |-> FALSE, inject |-> FALSE, treeshake |-> FALSE]
  /\ ast = 0
  /\ symbols_scopes = None
  /\ log = << >>
  /\ returned = None
  /\ builds = 0
  /\ diagnostics = {}

\* Lines 42-51: the initial semantic build of the parsed AST.
BuildBegin ==
  /\ stage = "idle" /\ builds < MaxBuilds
  /\ \E in \in BuildInputs : input' = in
  /\ builds' = builds + 1
  /\ ast' = 0
  /\ stats' = builds + 1
  /\ symbols_scopes' = Some(Semantic(0, "initial", FALSE))
  /\ log' = << Event("semantic", None, 0, FALSE, 0) >>
  /\ returned' = None
  /\ diagnostics' = {}
  /\ stage' = "transform"
  /\ UNCHANGED << scan_vars, ast_changed >>

\* Variant: the tables the stage returns are dropped and the ones it was
\* given are passed on.
StageReturn_KeepGiven(given, ret) == given

\* Lines 84-85, 94-95, 105-106: symbols = ret.symbols; scopes = ret.scopes.
\* The tables a stage returns describe the AST as the stage left it.
StageReturn(given, ret) == ret

\* Variant: a diagnostic of any severity fails the build.
TransformFails_AnyDiagnostic(severities) == severities /= {}

\* Lines 75-82: the transform fails the build.
TransformFails(severities) == "Error" \in severities

\* Lines 54-87.
Transform ==
  /\ stage = "transform"
  /\ IF input.parse_type /= "Js"
     THEN \E severities \in SUBSET Severities, mutated \in BOOLEAN :
            /\ log' = Append(log, Event("transform", symbols_scopes, ast, mutated, 0))
            /\ ast' = Mutate(ast, mutated)
            /\ diagnostics' = severities
            /\ IF TransformFails(severities)
               THEN /\ returned' = Some([ok |-> FALSE, symbols_scopes |-> None])
                    /\ symbols_scopes' = None
                    /\ stage' = "idle"
                    /\ UNCHANGED ast_changed
               ELSE /\ symbols_scopes' =
                         StageReturn(symbols_scopes,
                                     Some(Semantic(Mutate(ast, mutated), "transform", FALSE)))
                    /\ ast_changed' = TRUE
                    /\ stage' = "define"
                    /\ UNCHANGED returned
     ELSE /\ stage' = "define"
          /\ UNCHANGED << ast_changed, ast, symbols_scopes, log, returned, diagnostics >>
  /\ UNCHANGED << scan_vars, stats, input, builds >>

\* Lines 91-97.
Define ==
  /\ stage = "define"
  /\ IF input.define
     THEN \E mutated \in BOOLEAN :
            /\ log' = Append(log, Event("define", symbols_scopes, ast, mutated, 0))
            /\ ast' = Mutate(ast, mutated)
            /\ symbols_scopes' =
                 StageReturn(symbols_scopes,
                             Some(Semantic(Mutate(ast, mutated), "define", FALSE)))
            /\ ast_changed' = TRUE
     ELSE UNCHANGED << ast_changed, ast, symbols_scopes, log >>
  /\ stage' = "inject"
  /\ UNCHANGED << scan_vars, stats, input, returned, builds, diagnostics >>

\* Lines 99-108.
Inject ==
  /\ stage = "inject"
  /\ IF input.inject
     THEN \E mutated \in BOOLEAN :
            /\ log' = Append(log, Event("inject", symbols_scopes, ast, mutated, 0))
            /\ ast' = Mutate(ast, mutated)
            /\ symbols_scopes' =
                 StageReturn(symbols_scopes,
                             Some(Semantic(Mutate(ast, mutated), "inject", FALSE)))
            /\ ast_changed' = TRUE
     ELSE UNCHANGED << ast_changed, ast, symbols_scopes, log >>
  /\ stage' = "treeshake"
  /\ UNCHANGED << scan_vars, stats, input, returned, builds, diagnostics >>

\* Line 114: if self.ast_changed.
RebuildBeforeCompress(changed) == changed

\* Variant: tweak_ast_for_scanning is called after the span-uniqueness pass.
StageAfter_TweakLast(s) ==
  CASE s = "treeshake" -> "span_uniqueness"
    [] s = "span_uniqueness" -> "tweak"
    [] s = "tweak" -> "final"

\* Lines 110-131: the statements of build after inject, in order.
StageAfter(s) ==
  CASE s = "treeshake" -> "tweak"
    [] s = "tweak" -> "span_uniqueness"
    [] s = "span_uniqueness" -> "final"

\* Lines 110-119: the compressor takes the tables and returns none.
Treeshake ==
  /\ stage = "treeshake"
  /\ IF input.treeshake
     THEN \E mutated \in BOOLEAN :
            LET rebuild == RebuildBeforeCompress(ast_changed)
                given == IF rebuild THEN Some(Semantic(ast, "rebuild", FALSE))
                         ELSE symbols_scopes
            IN  /\ log' = log
                       \o (IF rebuild
                           THEN << Event("rebuild", None, ast, FALSE, stats) >>
                           ELSE << >>)
                       \o << Event("compress", given, ast, mutated, 0) >>
                /\ ast' = Mutate(ast, mutated)
                /\ symbols_scopes' = None
     ELSE UNCHANGED << ast, symbols_scopes, log >>
  /\ stage' = StageAfter("treeshake")
  /\ UNCHANGED << scan_vars, ast_changed, stats, input, returned, builds, diagnostics >>

\* Line 124: tweak_ast_for_scanning(&mut ast).
TweakAstForScanning ==
  /\ stage = "tweak"
  /\ \E mutated \in BOOLEAN :
       /\ log' = Append(log, Event("tweak", None, ast, mutated, 0))
       /\ ast' = Mutate(ast, mutated)
  /\ stage' = StageAfter("tweak")
  /\ UNCHANGED << scan_vars, ast_changed, stats, input, symbols_scopes, returned, builds, diagnostics >>

\* Lines 126-128: EnsureSpanUniqueness::new().visit_program.
EnsureSpanUniqueness ==
  /\ stage = "span_uniqueness"
  /\ \E mutated \in BOOLEAN :
       /\ log' = Append(log, Event("span_uniqueness", None, ast, mutated, 0))
       /\ ast' = Mutate(ast, mutated)
  /\ stage' = StageAfter("span_uniqueness")
  /\ UNCHANGED << scan_vars, ast_changed, stats, input, symbols_scopes, returned, builds, diagnostics >>

\* Variant: the tables of the initial build are handed back.
FinalSemantic_Initial(a) == Semantic(0, "initial", FALSE)

\* Lines 131-142: the final semantic build, and the return.
FinalSemantic(a) == Semantic(a, "final", TRUE)

Finish ==
  /\ stage = "final"
  /\ log' = Append(log, Event("final", None, ast, FALSE, stats))
  /\ symbols_scopes' = Some(FinalSemantic(ast))
  /\ returned' = Some([ok |-> TRUE, symbols_scopes |-> Some(FinalSemantic(ast))])
  /\ stage' = "idle"
  /\ UNCHANGED << scan_vars, ast_changed, stats, input, ast, builds, diagnostics >>

BuildNext ==
  \/ BuildBegin
  \/ Transform
  \/ Define
  \/ Inject
  \/ Treeshake
  \/ TweakAstForScanning
  \/ EnsureSpanUniqueness
  \/ Finish

\* ------------------------------------------------------- specifications
vars == << scan_vars, build_vars >>

\* No scan is running: the scanner's state for a module with no statements.
ScanIdle ==
  /\ program = << >>
  /\ options = None
  /\ scopes = SemanticOf(<< >>)
  /\ pc = "done"
  /\ work = << >>
  /\ visit_path = << >>
  /\ scope_stack = << >>
  /\ current_stmt_info = DefaultStmtInfo
  /\ result = [ stmt_infos |-> << >>, import_records |-> << >>, imports |-> {},
                errors |-> << >>, warnings |-> << >>, has_eval |-> FALSE,
                named_imports |-> {},
                self_referenced_class_decl_symbol_ids |-> {},
                hashbang_range |-> None ]
  /\ cjs_module_ident = None
  /\ cjs_exports_ident = None
  /\ cur_class = None
  /\ next_stmt = 0

\* One scan of one module.
Init == ScanInit /\ BuildInit
Spec == Init /\ [][ScanNext]_vars
\* The scan is one call that runs to its end: a step that can be taken is
\* taken.
FairSpec == Init /\ [][ScanNext]_vars /\ WF_vars(ScanNext)
\* Build calls on one PreProcessEcmaAst.
InitBuild == ScanIdle /\ BuildInit
BuildSpec == InitBuild /\ [][BuildNext]_vars

\* ======================================================================
\* Properties
\* ======================================================================
Done == pc = "done"

\* Every node of the program with the kinds of its ancestors, outermost
\* first, read off the tree.
RECURSIVE Sites(_, _)
RECURSIVE SitesAll(_, _, _)
Sites(n, anc) ==
  << [node |-> n, anc |-> anc] >> \o SitesAll(n.kids, 1, Append(anc, n.kind))
SitesAll(ks, i, anc) ==
  IF i > Len(ks) THEN << >> ELSE Sites(ks[i], anc) \o SitesAll(ks, i + 1, anc)
ProgramSites == SitesAll(program, 1, << >>)
SiteIndices(Test(_)) ==
  { i \in 1..Len(ProgramSites) : Test(ProgramSites[i].node) }

\* A call site require(<string literal>) of the global require.
IsRequireSite(n) ==
  /\ n.kind = "CallExpression"
  /\ n.kids[1].kind = "IdentifierReference"
  /\ n.kids[1].name = "require"
  /\ n.kids[1].name \notin scopes.declared
  /\ Len(n.kids) >= 2
  /\ n.kids[2].kids[1].kind = "StringLiteral"
\* A dynamic import() whose source is a string literal.
IsDynamicImportSite(n) ==
  n.kind = "ImportExpression" /\ n.kids[1].kind = "StringLiteral"
\* The request literal of such a site.
RequestOf(n) == IF n.kind = "CallExpression" THEN n.kids[2].kids[1] ELSE n.kids[1]
RecordKindOf(n) == IF n.kind = "CallExpression" THEN "Require" ELSE "DynamicImport"
IsImportSite(n) == IsRequireSite(n) \/ IsDynamicImportSite(n)
\* The import records made for the request literal of site n.
RecordsOf(n) ==
  { i \in 1..Len(result.import_records) :
      /\ result.import_records[i].kind = RecordKindOf(n)
      /\ result.import_records[i].start = RequestOf(n).start
      /\ result.import_records[i].end = RequestOf(n).end }
\* The sites whose request literal has the span of n's (only synthesized
\* literals share a span).
SitesLike(n) ==
  { j \in SiteIndices(IsImportSite) :
      /\ RecordKindOf(ProgramSites[j].node) = RecordKindOf(n)
      /\ RequestOf(ProgramSites[j].node).start = RequestOf(n).start
      /\ RequestOf(ProgramSites[j].node).end = RequestOf(n).end }
HasSpan(n) == ~SpanIsEmpty(n.start, n.end)

\* C1 (as claimed): when the scan is over, every dynamic import() with a
\* string-literal source and every global require(<string literal>) has
\* made exactly one ImportRecord, wherever it stands in the tree.
C1_ExactlyOneImportRecord ==
  Done =>
    \A i \in SiteIndices(IsImportSite) :
      Cardinality(RecordsOf(ProgramSites[i].node))
        = Cardinality(SitesLike(ProgramSites[i].node))

\* C2: the scan appends one StmtInfo per top-level statement, in source
\* order, the i-th (counting from 0) carrying stmt_idx = i: at every moment
\* the entries appended so far are those of the statements already scanned,
\* and when the scan is over there is one per statement.
RootSymbolsDeclaredIn(stmt) ==
  { SymbolOf(n) : n \in SelectSeq2(Flatten(stmt), IsRootBinding) }
C2_OneStmtInfoPerStatement ==
  /\ Len(result.stmt_infos) = next_stmt
  /\ next_stmt <= Len(program)
  /\ Done => Len(result.stmt_infos) = Len(program)
  /\ \A i \in 1..Len(result.stmt_infos) :
       /\ result.stmt_infos[i].stmt_idx = Some(i - 1)
       /\ result.stmt_infos[i].side_effect = DetectSideEffectOfStmt(program[i])
       /\ result.stmt_infos[i].declared_symbols = RootSymbolsDeclaredIn(program[i])
\* C2's case: a scan of two statements that declare different symbols is over.
C2_Witness ==
  /\ Done
  /\ Len(result.stmt_infos) = 2
  /\ result.stmt_infos[1].declared_symbols /= result.stmt_infos[2].declared_symbols

IsSeqStatement(stmt) ==
  /\ stmt.kind = "ExpressionStatement"
  /\ stmt.kids[1].kind = "ParenthesizedExpression"
  /\ stmt.kids[1].kids[1].kind = "SequenceExpression"
SeqOperands(last) ==
  { op \in UNION { { s.kids[1].kids[1].kids[k] :
                       k \in IF last THEN { Len(s.kids[1].kids[1].kids) }
                             ELSE 1..(Len(s.kids[1].kids[1].kids) - 1) } :
                   s \in SelectSeq2(NodesOf(program), IsSeqStatement) } :
      IsRequireSite(op) /\ HasSpan(RequestOf(op)) }
Unused(n) ==
  \A i \in RecordsOf(n) : "IS_REQUIRE_UNUSED" \in result.import_records[i].meta
Used(n) ==
  \A i \in RecordsOf(n) : "IS_REQUIRE_UNUSED" \notin result.import_records[i].meta

RECURSIVE NearestAncestor(_, _)
NearestAncestor(anc, i) ==
  IF i = 0 THEN "none"
  ELSE IF anc[i] = "ParenthesizedExpression" THEN NearestAncestor(anc, i - 1)
  ELSE anc[i]
IsSpannedRequireSite(n) == IsRequireSite(n) /\ HasSpan(RequestOf(n))

\* C5: a global require(<literal with a span>) whose nearest ancestor, any
\* parentheses skipped, is an expression statement gets IsRequireUnused; one
\* whose nearest such ancestor is neither an expression statement nor a
\* sequence expression does not.
C5_StatementUnusedElseUsed ==
  Done =>
    \A i \in SiteIndices(IsSpannedRequireSite) :
      LET site == ProgramSites[i]
          near == NearestAncestor(site.anc, Len(site.anc))
      IN  /\ RecordsOf(site.node) /= {}
          /\ near = "ExpressionStatement" => Unused(site.node)
          /\ near \notin { "ExpressionStatement", "SequenceExpression" } => Used(site.node)
\* C5's case: ((require("x"))); and a require that is an argument or an
\* initializer have been scanned.
C5_Witness ==
  /\ Done
  /\ \E i, j \in SiteIndices(IsSpannedRequireSite) :
       /\ Len(ProgramSites[i].anc) >= 2
       /\ ProgramSites[i].anc[Len(ProgramSites[i].anc)] = "ParenthesizedExpression"
       /\ NearestAncestor(ProgramSites[i].anc, Len(ProgramSites[i].anc))
            = "ExpressionStatement"
       /\ NearestAncestor(ProgramSites[j].anc, Len(ProgramSites[j].anc))
            \in { "Argument", "VariableDeclarator" }

\* A call whose callee is the identifier eval; the callee is bound when it
\* resolves to a declaration of the file, in a nested scope or in the root
\* scope, and global when it resolves to none.
IsEvalCallSite(n) ==
  /\ n.kind = "CallExpression"
  /\ n.kids[1].kind = "IdentifierReference"
  /\ n.kids[1].name = "eval"
IsBoundEvalSite(n) ==
  IsEvalCallSite(n) /\ (n.kids[1].flag \/ "eval" \in scopes.root)
IsGlobalEvalSite(n) == IsEvalCallSite(n) /\ ~IsBoundEvalSite(n)
\* The eval warnings at the callee of call n.
WarningsAt(n) ==
  { i \in 1..Len(result.warnings) :
      /\ result.warnings[i].kind = "eval"
      /\ result.warnings[i].start = n.kids[1].start
      /\ result.warnings[i].end = n.kids[1].end }

\* C6 (as claimed): a call of an eval that resolves to a binding declared in
\* the file, in the root scope or in a nested one, appends no warning and
\* leaves has_eval false; only a callee without a binding is detected.
C6_BoundEvalIsNotDetected ==
  Done =>
    /\ \A i \in SiteIndices(IsBoundEvalSite) : WarningsAt(ProgramSites[i].node) = {}
    /\ SiteIndices(IsGlobalEvalSite) = {} =>
         ~result.has_eval /\ result.warnings = << >>

\* C7 (as claimed): every call of the unresolved global eval sets has_eval
\* and appends exactly one warning, so that the scan ends with as many eval
\* warnings as there are such calls, wherever they stand.
C7_OneWarningPerGlobalEval ==
  Done =>
    /\ \A i \in SiteIndices(IsGlobalEvalSite) :
         Cardinality(WarningsAt(ProgramSites[i].node)) = 1 /\ result.has_eval
    /\ Len(result.warnings) = Cardinality(SiteIndices(IsGlobalEvalSite))

\* An await expression or a for-await-of statement; it is at top level when
\* no function, class or for-of statement encloses it.
IsAwaitSite(n) ==
  n.kind = "AwaitExpression" \/ (n.kind = "ForOfStatement" /\ n.flag)
AtTopLevel(anc) ==
  \A i \in 1..Len(anc) : anc[i] \notin { "Function", "Class", "ForOfStatement" }
\* The top-level-await errors at node n.
ErrorsAt(n) ==
  { i \in 1..Len(result.errors) :
      /\ result.errors[i].kind = "unsupported_feature"
      /\ result.errors[i].start = n.start
      /\ result.errors[i].end = n.end }
AwaitErrorsAsConfigured ==
  Done =>
    \A i \in SiteIndices(IsAwaitSite) :
      LET site == ProgramSites[i]
          rejected == /\ AtTopLevel(site.anc)
                      /\ IsSome(options)
                      /\ Unwrap(options).format /= "esm"
      IN  /\ Cardinality(ErrorsAt(site.node)) = IF rejected THEN 1 ELSE 0
          /\ \A e \in ErrorsAt(site.node) :
               result.errors[e].format = Unwrap(options).format
\* The visit of an await expression or a for-of statement puts the visits of
\* all its children in front of what was left to do.
DescendsIntoChildren ==
  (/\ work /= << >>
   /\ Top.op = "visit"
   /\ Top.node.kind \in { "AwaitExpression", "ForOfStatement" })
  => /\ Len(work') >= Len(work) + Len(Top.node.kids)
     /\ \A k \in 1..Len(Top.node.kids) :
          \E j \in 1..(Len(work') - Len(work) + 1) :
            /\ work'[j].op \in { "visit", "visit_statement" }
            /\ work'[j].node = Top.node.kids[k]

\* C8: an await or for-await-of at top level appends exactly one error, which
\* names the output format, when the configured format does not keep ESM
\* syntax, and none when it does; one that is not at top level appends none;
\* and the traversal always goes on into the children of the node.
C8_TopLevelAwait == [] AwaitErrorsAsConfigured /\ [][DescendsIntoChildren]_vars
\* C8's case: under a format that does not keep ESM syntax, a top-level await
\* that got its error and an await inside a function that got none.
C8_Witness ==
  /\ Done
  /\ IsSome(options)
  /\ \E i, j \in SiteIndices(IsAwaitSite) :
       /\ AtTopLevel(ProgramSites[i].anc)
       /\ Cardinality(ErrorsAt(ProgramSites[i].node)) = 1
       /\ ~AtTopLevel(ProgramSites[j].anc)
       /\ ErrorsAt(ProgramSites[j].node) = {}

\* The `module` of an assignment to module.exports or module.exports.<prop>,
\* and the `exports` of an assignment to exports.<prop>; NoNode otherwise.
IsIdNamed(n, name) == n.kind = "IdentifierReference" /\ n.name = name
ModuleIdOf(n) ==
  LET left == n.kids[1]
  IN  IF left.kind /= "StaticMemberExpression" THEN NoNode
      ELSE IF left.name = "exports" /\ IsIdNamed(left.kids[1], "module")
           THEN left.kids[1]
      ELSE IF /\ left.kids[1].kind = "StaticMemberExpression"
              /\ left.kids[1].name = "exports"
              /\ IsIdNamed(left.kids[1].kids[1], "module")
           THEN left.kids[1].kids[1]
      ELSE NoNode
ExportsIdOf(n) ==
  LET left == n.kids[1]
  IN  IF left.kind = "StaticMemberExpression" /\ IsIdNamed(left.kids[1], "exports")
      THEN left.kids[1] ELSE NoNode
\* The positions, in traversal order, of the assignments whose target names
\* an unresolved global module (exports), by IdOf.
Qualifying(IdOf(_)) ==
  { i \in 1..Len(NodesOf(program)) :
      /\ NodesOf(program)[i].kind = "AssignmentExpression"
      /\ IdOf(NodesOf(program)[i]) /= NoNode
      /\ IdOf(NodesOf(program)[i]).name \notin scopes.declared }
Min(S) == CHOOSE x \in S : \A y \in S : x <= y
MarkerOf(i, IdOf(_), width) ==
  << IdOf(NodesOf(program)[i]).start, IdOf(NodesOf(program)[i]).start + width >>

\* C9: when the scan is over the module.exports marker is set iff some
\* assignment targets module.exports or module.exports.<prop> with an
\* unresolved global module, and it is then the 6 characters at the start of
\* such an identifier; with module declared in the file it is never set.
\* Likewise for exports.<prop> and the 7 characters of exports.
C9_MarkersOfGlobalsOnly ==
  Done =>
    /\ IsSome(cjs_module_ident) <=> Qualifying(ModuleIdOf) /= {}
    /\ IsSome(cjs_module_ident) =>
         \E i \in Qualifying(ModuleIdOf) :
           Unwrap(cjs_module_ident) = MarkerOf(i, ModuleIdOf, 6)
    /\ "module" \in scopes.declared => cjs_module_ident = None
    /\ IsSome(cjs_exports_ident) <=> Qualifying(ExportsIdOf) /= {}
    /\ IsSome(cjs_exports_ident) =>
         \E i \in Qualifying(ExportsIdOf) :
           Unwrap(cjs_exports_ident) = MarkerOf(i, ExportsIdOf, 7)
    /\ "exports" \in scopes.declared => cjs_exports_ident = None
\* C9's case: a scan that set the module.exports marker, of a program that
\* declares exports and assigns to exports.<prop>.
C9_Witness ==
  /\ Done
  /\ IsSome(cjs_module_ident)
  /\ "exports" \in scopes.declared
  /\ \E i \in 1..Len(NodesOf(program)) :
       /\ NodesOf(program)[i].kind = "AssignmentExpression"
       /\ ExportsIdOf(NodesOf(program)[i]) /= NoNode

MarkersKept ==
  /\ IsSome(cjs_module_ident) => cjs_module_ident' = cjs_module_ident
  /\ IsSome(cjs_exports_ident) => cjs_exports_ident' = cjs_exports_ident
MarkersOfFirstOccurrence ==
  Done =>
    /\ cjs_module_ident =
         IF Qualifying(ModuleIdOf) = {} THEN None
         ELSE Some(MarkerOf(Min(Qualifying(ModuleIdOf)), ModuleIdOf, 6))
    /\ cjs_exports_ident =
         IF Qualifying(ExportsIdOf) = {} THEN None
         ELSE Some(MarkerOf(Min(Qualifying(ExportsIdOf)), ExportsIdOf, 7))

\* C10: a CJS marker, once set, is changed by no later step of the scan, and
\* at the end it is the span of the first qualifying assignment in traversal
\* order, or unset when there is none.
C10_MarkersSetOnce == [][MarkersKept]_vars /\ [] MarkersOfFirstOccurrence
\* C10's case: a scan of two qualifying assignments to module.exports at
\* different places is over.
C10_Witness ==
  /\ Done
  /\ IsSome(cjs_module_ident)
  /\ \E i, j \in Qualifying(ModuleIdOf) :
       MarkerOf(i, ModuleIdOf, 6) /= MarkerOf(j, ModuleIdOf, 6)


\* The chains of static member accesses r.p1...pn rooted at an identifier:
\* the outermost access of each, read off the tree.
IsChainSite(s) ==
  /\ s.node.kind = "StaticMemberExpression"
  /\ (s.anc = << >> \/ s.anc[Len(s.anc)] /= "StaticMemberExpression")
RECURSIVE ChainRoot(_)
ChainRoot(n) ==
  IF n.kind = "StaticMemberExpression" THEN ChainRoot(n.kids[1]) ELSE n
\* p1, ..., pn in source order.
RECURSIVE SourceProps(_)
SourceProps(n) ==
  IF n.kind = "StaticMemberExpression"
  THEN Append(SourceProps(n.kids[1]), n.name) ELSE << >>
\* The proper prefixes r.p1...pk, k < n, of a chain.
RECURSIVE ProperPrefixes(_)
ProperPrefixes(n) ==
  IF n.kids[1].kind = "StaticMemberExpression"
  THEN { n.kids[1] } \cup ProperPrefixes(n.kids[1]) ELSE {}
\* The member-access facts recorded for the expression with n's span.
FactsAt(n) ==
  { f \in { << i, j >> : i \in 1..Len(result.stmt_infos), j \in 1..4 } :
      /\ f[2] <= Len(result.stmt_infos[f[1]].member_expr_refs)
      /\ result.stmt_infos[f[1]].member_expr_refs[f[2]].start = n.start
      /\ result.stmt_infos[f[1]].member_expr_refs[f[2]].end = n.end }
FactOf(f) == result.stmt_infos[f[1]].member_expr_refs[f[2]]
ChainSiteIndices ==
  { i \in 1..Len(ProgramSites) :
      /\ IsChainSite(ProgramSites[i])
      /\ HasSpan(ProgramSites[i].node)
      /\ ChainRoot(ProgramSites[i].node).kind = "IdentifierReference" }
\* The root of the chain resolves to a root symbol that an import
\* declaration standing before the chain has made a named import (imports
\* are scanned statement by statement, in source order).
RootsAtNamedImport(n) ==
  LET r == ChainRoot(n)
  IN  /\ ~r.flag
      /\ r.name \in scopes.root
      /\ [name |-> r.name, root |-> TRUE] \in result.named_imports
      /\ \E j \in 1..Len(program) :
           /\ program[j].kind = "ImportDeclaration"
           /\ program[j].start < n.start
           /\ \E k \in 1..Len(program[j].kids) : program[j].kids[k].name = r.name

\* C11 (as claimed): when the scan is over, a chain r.p1...pn with a span
\* whose root r resolves to a root symbol that is a named import has exactly
\* one member-access fact, keyed by r's symbol, with path [p1, ..., pn], and
\* none for its proper prefixes; a chain whose root is local, unresolved or
\* not a named import has none.
C11_OneFactPerNamedImportChain ==
  Done =>
    \A i \in ChainSiteIndices :
      LET n == ProgramSites[i].node
      IN  IF RootsAtNamedImport(n)
          THEN /\ Cardinality(FactsAt(n)) = 1
               /\ \A f \in FactsAt(n) :
                    /\ FactOf(f).object_ref
                         = [name |-> ChainRoot(n).name, root |-> TRUE]
                    /\ FactOf(f).props = SourceProps(n)
               /\ \A p \in ProperPrefixes(n) : FactsAt(p) = {}
          ELSE FactsAt(n) = {}


\* The stages of build after the transform.
LaterStages ==
  { "define", "inject", "rebuild", "compress", "tweak", "span_uniqueness", "final" }
ReturnedErr == IsSome(returned) /\ ~Unwrap(returned).ok
ReturnedOk == IsSome(returned) /\ Unwrap(returned).ok
\* The transform of the running call has reported an error.
TransformReportedError == input.parse_type /= "Js" /\ "Error" \in diagnostics
ErrIffTransformError ==
  /\ IsSome(returned) => (ReturnedErr <=> TransformReportedError)
  /\ ReturnedErr =>
       /\ \A i \in 1..Len(log) : log[i].stage \notin LaterStages
       /\ log[Len(log)].stage = "transform"
       /\ stage = "idle"
  \* a call that is past its transform has seen no error, and goes on
  /\ stage \notin { "idle", "transform" } => ~TransformReportedError
\* The step in which the transform reports an error is the step that
\* returns.
ErrReturnsAtOnce ==
  (stage = "transform" /\ input.parse_type /= "Js" /\ "Error" \in diagnostics')
    => (stage' = "idle" /\ returned' = Some([ok |-> FALSE, symbols_scopes |-> None]))

\* C12: build returns an error exactly when the parse type is not plain JS
\* and the transform reports a diagnostic of severity Error; it then returns
\* at once, no later stage having run.  Warnings alone do not fail the
\* build, and no other stage does.
C12_ErrOnlyFromTransform == [] ErrIffTransformError /\ [][ErrReturnsAtOnce]_vars
\* C12's case: a build returned an error after its transform reported an
\* error next to a warning.
C12_Witness ==
  /\ ReturnedErr
  /\ diagnostics = { "Error", "Warning" }
  /\ log[Len(log)].stage = "transform"


\* The number of events among the first k of the running call that changed
\* the AST.
RECURSIVE Mutations(_)
Mutations(k) ==
  IF k = 0 THEN 0 ELSE Mutations(k - 1) + (IF log[k].mutated THEN 1 ELSE 0)
\* The tables an earlier step of the call produced.
ProducedBefore ==
  { Semantic(Mutations(i), by, FALSE) :
      i \in 0..Len(log), by \in { "initial", "transform", "define", "inject", "rebuild" } }

\* C13: whatever the configuration, a build that returns Ok returns the
\* symbol table and scope tree of the final semantic build, made with the
\* ids of child scopes and after the last mutation of the AST; tables of the
\* initial build, the transform, define, inject or the rebuild before the
\* compressor are never returned.
C13_ReturnsFinalSemantic ==
  ReturnedOk =>
    LET r == Unwrap(returned).symbols_scopes
    IN  /\ IsSome(r)
        /\ Unwrap(r).by = "final"
        /\ Unwrap(r).child_ids
        /\ Unwrap(r).at = Mutations(Len(log))
        /\ log[Len(log)].stage = "final"
        /\ \A i \in 1..Len(log) : log[i].mutated => i < Len(log)
        /\ Unwrap(r) \notin ProducedBefore
\* C13's case: a build that transformed, rebuilt before compressing and had
\* the AST changed by the compressor and by a later pass has returned Ok.
C13_Witness ==
  /\ ReturnedOk
  /\ \E i, j, k \in 1..Len(log) :
       /\ i < j /\ j < k
       /\ log[i].stage = "rebuild"
       /\ log[j].stage = "compress" /\ log[j].mutated
       /\ log[k].stage \in { "tweak", "span_uniqueness" } /\ log[k].mutated


\* The stages of build that change the AST.
MutatingStages == { "transform", "define", "inject", "compress", "tweak" }
SpanPasses == { i \in 1..Len(log) : log[i].stage = "span_uniqueness" }

\* C14: in a build that returns Ok the span-uniqueness pass has run exactly
\* once, after the transform, define, inject, the compressor and
\* tweak_ast_for_scanning, and nothing has changed the AST between the pass
\* and the return.
C14_SpanUniquenessLast ==
  ReturnedOk =>
    /\ Cardinality(SpanPasses) = 1
    /\ \A p \in SpanPasses :
         /\ \A i \in 1..Len(log) : log[i].stage \in MutatingStages => i < p
         /\ \A i \in 1..Len(log) : i > p => ~log[i].mutated
         /\ ast = Mutations(p)
         /\ \E i \in 1..Len(log) : log[i].stage = "tweak"
\* C14's case: a build in which the transform, define, inject, the
\* compressor and the tweak all changed the AST has returned Ok.
C14_Witness ==
  /\ ReturnedOk
  /\ \A s \in MutatingStages :
       \E i \in 1..Len(log) : log[i].stage = s /\ log[i].mutated


\* The leave_node and leave_scope calls the traversal owes for the nodes
\* and scopes it has entered, innermost first: what each will pop.  A
\* leave_scope whose enter_scope is still to come is not owed yet.
IsLeaveNode(task) == task.op = "leave_node"
OwedNodes ==
  LET s == SelectSeq(work, IsLeaveNode)
  IN  [i \in 1..Len(s) |-> AstKind(s[i].node)]
RECURSIVE OwedScopesFrom(_)
OwedScopesFrom(i) ==
  IF i > Len(work) THEN << >>
  ELSE IF /\ work[i].op = "leave_scope"
          /\ ~\E j \in 1..(i - 1) :
                work[j].op = "enter_scope" /\ work[j].node = work[i].node
       THEN << work[i].node.start >> \o OwedScopesFrom(i + 1)
       ELSE OwedScopesFrom(i + 1)
OwedScopes == OwedScopesFrom(1)
BetweenStatements == work = << >> \/ Top.op = "add_stmt_info"

\* C15: the visit path and the scope stack are strictly nested: at every
\* moment the entries of each stack are exactly those whose leave call is
\* still owed, innermost on top, so every push has its one pop, also where
\* a visitor returns without walking; both stacks are empty before and
\* after each top-level statement and when the scan is over.
C15_StacksStrictlyNested ==
  /\ visit_path = Reverse(OwedNodes)
  /\ scope_stack = Reverse(OwedScopes)
  /\ BetweenStatements => visit_path = << >> /\ scope_stack = << >>
  /\ Done => visit_path = << >> /\ scope_stack = << >>
\* C15's case: the scan is over a module in which a chain at a named import
\* was recorded without a walk, inside the scopes of a class and its method.
C15_Witness ==
  /\ Done
  /\ \E i \in 1..Len(result.stmt_infos) :
       /\ result.stmt_infos[i].member_expr_refs /= << >>
       /\ program[i].kind = "Class"


IsPrefixOf(s, u) == Len(s) <= Len(u) /\ SubSeq(u, 1, Len(s)) = s
AllCommitted ==
  /\ Len(result.stmt_infos) = Len(program)
  /\ \A i \in 1..Len(program) : result.stmt_infos[i].stmt_idx = Some(i - 1)
DiagnosticsOnlyGrow ==
  /\ IsPrefixOf(result.errors, result'.errors)
  /\ IsPrefixOf(result.warnings, result'.warnings)
\* A step that records a diagnostic goes on as the visitor does without
\* one: it walks into the node, and what was left to do stays to be done.
DiagnosticSkipsNothing ==
  (result'.errors /= result.errors \/ result'.warnings /= result.warnings)
    => /\ work /= << >>
       /\ work' = WalkTasks(Top.node) \o Rest
       /\ pc' = pc
       /\ next_stmt' = next_stmt
       /\ result'.stmt_infos = result.stmt_infos

\* C16: every scan comes to its end with a StmtInfo committed for every
\* top-level statement, however many diagnostics it records; a step that
\* records an error or a warning skips nothing of the statement or of the
\* statements after it, and the lists of errors and warnings only grow.
C16_ScanCompletes ==
  /\ <>(Done /\ AllCommitted)
  /\ [][DiagnosticsOnlyGrow]_vars
  /\ [][DiagnosticSkipsNothing]_vars
\* C16's case: the scan of two statements is over, with an error recorded
\* in the first of them.
C16_Witness ==
  /\ Done
  /\ Len(program) = 2
  /\ AllCommitted
  /\ \E e \in 1..Len(result.errors) : result.errors[e].start < program[2].start


\* The scan_class_declaration calls that have not returned, innermost
\* first: where in the work their restoring step stands.
PendingRestores == { i \in 1..Len(work) : work[i].op = "restore_class_decl" }
\* The context of a named class declaration: its symbol and the ids of the
\* references resolved to it.
ContextOf(class) ==
  [symbol_id |-> SymbolOf(class.kids[1]),
   ids |-> scopes.resolved_references[SymbolOf(class.kids[1])]]
\* The class whose traversal by scan_class_declaration is going on: the one
\* that will be left just before the innermost restoring step.
ContextIsInnermostScan ==
  IF PendingRestores = {} THEN cur_class = None
  ELSE LET i == Min(PendingRestores)
       IN  i > 1 => /\ work[i - 1].op = "leave_node"
                    /\ work[i - 1].node.kind = "Class"
                    /\ cur_class = Some(ContextOf(work[i - 1].node))
\* The named class declarations that declare symbol s.
ClassDeclsOf(s) ==
  { i \in 1..Len(ProgramSites) :
      /\ ProgramSites[i].node.kind = "Class"
      /\ ProgramSites[i].node.kids[1].kind = "BindingIdentifier"
      /\ SymbolOf(ProgramSites[i].node.kids[1]) = s }
\* A symbol joins the self-referencing set in the visit of a reference that
\* stands inside the declaration of the class of that symbol and resolves
\* to it.
InsertedBySelfReference ==
  \A s \in result'.self_referenced_class_decl_symbol_ids
           \ result.self_referenced_class_decl_symbol_ids :
    /\ work /= << >>
    /\ Top.op = "visit"
    /\ Top.node.kind = "IdentifierReference"
    /\ Top.node.name = s.name
    /\ Top.node.flag = ~s.root
    /\ \E c \in ClassDeclsOf(s) :
         /\ ProgramSites[c].node.start <= Top.node.start
         /\ Top.node.end <= ProgramSites[c].node.end

\* C17: at any depth of nesting, while scan_class_declaration traverses a
\* named class the context is that class's symbol and reference ids (the
\* innermost one's when classes nest); when it returns the context is again
\* what it was on entry, none at the outermost level; and a class symbol
\* joins the self-referencing set only through a reference inside the
\* class's own declaration that resolves to the class.
C17_ClassContextSavedAndRestored ==
  [] ContextIsInnermostScan /\ [][InsertedBySelfReference]_vars
\* C17's case: the scan of a class nested in another is about to return to
\* the outer class's context, the inner class having referred to itself.
C17_Witness ==
  /\ work /= << >>
  /\ Top.op = "restore_class_decl"
  /\ Top.prev /= None
  /\ cur_class /= None
  /\ Unwrap(cur_class).symbol_id = [name |-> "I", root |-> FALSE]
  /\ Unwrap(Top.prev).symbol_id = [name |-> "O", root |-> TRUE]
  /\ [name |-> "I", root |-> FALSE] \in result.self_referenced_class_decl_symbol_ids


\* The running or last call has passed its treeshake step.
PastTreeshake == stage \in { "tweak", "span_uniqueness", "final" } \/ ReturnedOk
RebuiltBeforeCompress == \E i \in 1..Len(log) : log[i].stage = "rebuild"
\* A stage of this call that the code takes to change the AST has run.
ChangedInThisCall ==
  \E i \in 1..Len(log) : log[i].stage \in { "transform", "define", "inject" }

\* C18 (as claimed): in every build call on an instance, the first or a
\* later one, the semantic rebuild before the compressor happens exactly
\* when tree-shaking is enabled and the transform, define or inject stage of
\* that same call has changed the AST.
C18_RebuildIffChangedInThisCall ==
  PastTreeshake => (RebuiltBeforeCompress <=> (input.treeshake /\ ChangedInThisCall))


\* The root-scope symbols that statement stmt refers to.
IsRootReference(n) ==
  n.kind = "IdentifierReference" /\ ~n.flag /\ n.name \in scopes.root
RootSymbolsReferencedIn(stmt) ==
  { [name |-> n.name, root |-> TRUE] : n \in SelectSeq2(Flatten(stmt), IsRootReference) }
\* info holds nothing but what the traversal of stmt can have put there.
HoldsOnlyWhatIsIn(info, stmt) ==
  /\ info.declared_symbols \subseteq RootSymbolsDeclaredIn(stmt)
  /\ info.referenced_symbols \subseteq RootSymbolsReferencedIn(stmt)
  /\ \A j \in 1..Len(info.member_expr_refs) :
       /\ stmt.start <= info.member_expr_refs[j].start
       /\ info.member_expr_refs[j].end <= stmt.end

\* C19: nothing leaks from one top-level statement into another: the
\* StmtInfo committed for statement i, and the accumulator while statement i
\* is traversed, hold only root-scope symbols met in statement i and the
\* side-effect flag computed for statement i; between two statements the
\* accumulator is the empty default.
C19_NoLeakBetweenStatements ==
  /\ \A i \in 1..Len(result.stmt_infos) :
       /\ HoldsOnlyWhatIsIn(result.stmt_infos[i], program[i])
       /\ result.stmt_infos[i].side_effect = DetectSideEffectOfStmt(program[i])
       /\ \A s \in result.stmt_infos[i].declared_symbols
                    \cup result.stmt_infos[i].referenced_symbols : s.root
  /\ work = << >> => current_stmt_info = DefaultStmtInfo
  /\ work /= << >> =>
       /\ next_stmt < Len(program)
       /\ HoldsOnlyWhatIsIn(current_stmt_info, program[next_stmt + 1])
       /\ current_stmt_info.side_effect = DetectSideEffectOfStmt(program[next_stmt + 1])
\* C19's case: the scan is over two statements that each declare and refer
\* to root symbols the other does not.
C19_Witness ==
  /\ Done
  /\ Len(result.stmt_infos) = 2
  /\ result.stmt_infos[1].referenced_symbols /= {}
  /\ result.stmt_infos[2].referenced_symbols /= {}
  /\ result.stmt_infos[1].referenced_symbols \cap result.stmt_infos[2].referenced_symbols = {}
  /\ result.stmt_infos[1].declared_symbols /= {}
  /\ result.stmt_infos[2].declared_symbols /= {}
  /\ result.stmt_infos[1].declared_symbols \cap result.stmt_infos[2].declared_symbols = {}


\* The sites require(<literal with a span>) that are an operand of a
\* sequence expression, whatever encloses the sequence; last says whether
\* the operand is the last one.
IsSequence(n) == n.kind = "SequenceExpression"
AnySeqOperands(last) ==
  { op \in UNION { { q.kids[k] : k \in IF last THEN { Len(q.kids) }
                                       ELSE 1..(Len(q.kids) - 1) } :
                   q \in SelectSeq2(NodesOf(program), IsSequence) } :
      IsSpannedRequireSite(op) /\ HasSpan(op) }

\* C20 (as claimed): a require call that is the last operand of a sequence
\* expression is used, whatever encloses the sequence: its record has no
\* IsRequireUnused; one that is another operand is unused, whatever encloses
\* the sequence: its record has IsRequireUnused, in a statement
\* (require("x"), 1); as well as in const z = (require("x"), 1);.
C20_SequenceDecidesUse ==
  Done =>
    /\ \A op \in AnySeqOperands(TRUE) : RecordsOf(op) /= {} /\ Used(op)
    /\ \A op \in AnySeqOperands(FALSE) : RecordsOf(op) /= {} /\ Unused(op)

====
